---- MODULE Spec2Model ----
(***************************************************************************)
(* Batched order-detail retrieval of src/hooks/useGetBuyDetails.tsx:       *)
(* chunkArray, getOrderDetails, getBulkOrderDetailsBatched, the query      *)
(* function of useGetOrders, and the in-memory cache wrapper               *)
(* (getCachedOrderDetails, clearCacheIfNeeded).                            *)
(*                                                                         *)
(* JavaScript runs the module on one thread: every action below is one     *)
(* synchronous run of code between two suspension points (an await on a    *)
(* network exchange or on the pacing timer).  Variables marked "history"   *)
(* record what happened (requests issued, fetches settled); the code does  *)
(* not read them.                                                          *)
(***************************************************************************)
EXTENDS Integers, Sequences, FiniteSets, TLC

\* ------------------------------------------------------------------ bounds
MaxLen == 3            \* longest list of order identifiers
MaxBatchSize == 2      \* largest batchSize passed explicitly
MaxNegSize == 1        \* batchSize ranges over -MaxNegSize..MaxBatchSize
MaxCachedInFlight == 1 \* concurrent getCachedOrderDetails fetches
MaxLenCached == 2      \* longest list of identifiers in SpecCache
MaxOver == 2           \* identifiers beyond CacheLimit in SpecEvict

\* Iterations of chunkArray's loop that are followed; a terminating call on
\* at most MaxLen items takes at most MaxLen of them.
MaxIter == MaxLen + 2

\* ------------------------------------------------------- program constants
DefaultBatchSize == 5  \* batchSize = 5
CacheLimit == 100      \* cacheSize > 100

OrderIdSet == {"A", "B"}
FalsyId == ""          \* an item whose id is missing: filter(Boolean) drops it

VARIABLES
    token,             \* localStorage holds an accessToken
    pc,                \* where the current call stands
    via,               \* "query": through useGetOrders; "direct": exported call; "none"
    orderIds,          \* argument of getBulkOrderDetailsBatched
    batchSize,         \* argument of getBulkOrderDetailsBatched
    batches,           \* chunkArray(orderIds, batchSize)
    cur,               \* index of the batch the for-loop is at (0: none)
    fetches,           \* batchPromises of the current batch
    allOrderDetails,   \* accumulator of the for-loop
    result,            \* value the call returned
    waits,             \* history: pacing timers that have fired
    issued,            \* history: items a detail request was issued for
    settled,           \* history: [pos, ok] of every settled detail request
    chunkDone,         \* history: positions of the current batch, in completion order
    cacheAtCall,       \* history: identifiers cached when the call began
    remote,            \* history: [pos, paymentTermList] as the remote sent it
    orderDetailsCache, \* the module's cache: identifier -> details
    cachedPending,     \* getCachedOrderDetails fetches in flight, per identifier
    cacheOp,           \* history: the last operation on the cache and what it did
    cachedFailed       \* history: identifiers whose last cached fetch threw

vars == <<token, pc, via, orderIds, batchSize, batches, cur, fetches,
          allOrderDetails, result, waits, issued, settled, chunkDone,
          cacheAtCall, remote, orderDetailsCache, cachedPending, cacheOp,
          cachedFailed>>

callVars == <<pc, via, orderIds, batchSize, batches, cur, fetches,
              allOrderDetails, result, waits, issued, settled, chunkDone,
              cacheAtCall, remote>>

cacheState == <<orderDetailsCache, cachedPending, cacheOp, cachedFailed>>

\* ----------------------------------------------------------------- helpers
Min(a, b) == IF a < b THEN a ELSE b
Max(a, b) == IF a > b THEN a ELSE b

BoundedSeq(S, n) == UNION {[1..m -> S] : m \in 0..n}

RECURSIVE Concat(_)
Concat(ss) == IF ss = <<>> THEN <<>> ELSE Head(ss) \o Concat(Tail(ss))

\* The items of a batch request: each identifier with its position in the
\* request (the position is a history tag; the code passes the identifier).
Tagged(ids) == [i \in 1..Len(ids) |-> [pos |-> i, id |-> ids[i]]]

\* ------------------------------------------------------ remote responses
\* paymentTermList as the remote sends it: a sequence, or absent, or some
\* value that is no sequence.
PtlArray == [isArray |-> TRUE, items |-> <<"T1">>]
PtlAbsent == [isArray |-> FALSE, items |-> <<>>]
PtlJunk == [isArray |-> FALSE, items |-> <<"junk">>]

\* One exchange with /api/p2p/orders/:id.
Responses ==
    {[kind |-> "http"], [kind |-> "nodata"]}
    \cup {[kind |-> "data", paymentTermList |-> p] : p \in {PtlArray, PtlAbsent, PtlJunk}}

\* fetchData: throws on a response that is not ok, else returns data.result.
fetchData(resp) ==
    IF resp.kind = "http" THEN [threw |-> TRUE]
    ELSE IF resp.kind = "nodata" THEN [threw |-> FALSE, hasData |-> FALSE]
    ELSE [threw |-> FALSE, hasData |-> TRUE, paymentTermList |-> resp.paymentTermList]

\* getOrderDetails: rethrows, and throws when no data came back.
getOrderDetails(id, resp) ==
    LET data == fetchData(resp) IN
    IF data.threw THEN [threw |-> TRUE]
    ELSE IF ~data.hasData THEN [threw |-> TRUE]
    ELSE [threw |-> FALSE,
          details |-> [id |-> id, paymentTermList |-> data.paymentTermList]]

\* ---------------------------------------------------------------- chunker
\* slice with its end index taken as inclusive (one element too many).
sliceInclusive(array, start, end) ==
    LET len == Len(array)
        from == IF start < 0 THEN Max(len + start, 0) ELSE Min(start, len)
        to == IF end + 1 < 0 THEN Max(len + end + 1, 0) ELSE Min(end + 1, len)
    IN IF to <= from THEN <<>> ELSE SubSeq(array, from + 1, to)

\* Array.prototype.slice(start, end), 0-based, negative indexes from the end.
slice(array, start, end) ==
    LET len == Len(array)
        from == IF start < 0 THEN Max(len + start, 0) ELSE Min(start, len)
        to == IF end < 0 THEN Max(len + end, 0) ELSE Min(end, len)
    IN IF to <= from THEN <<>> ELSE SubSeq(array, from + 1, to)

\* The for-loop of chunkArray from index i on; fuel counts the iterations
\* still followed, and done = FALSE says the loop had not ended by then.
RECURSIVE chunkLoop(_, _, _, _, _)
chunkLoop(array, chunkSize, i, acc, fuel) ==
    IF ~(i < Len(array)) THEN [done |-> TRUE, result |-> acc]
    ELSE IF fuel = 0 THEN [done |-> FALSE, result |-> acc]
    ELSE chunkLoop(array, chunkSize, i + chunkSize,
                   Append(acc, slice(array, i, i + chunkSize)), fuel - 1)

\* chunkArray with the loop condition i < array.length - 1: a last chunk of
\* one element is dropped.
chunkArrayDropTail(array, chunkSize) ==
    chunkLoop(SubSeq(array, 1, Len(array) - 1), chunkSize, 0, <<>>, MaxIter)

\* chunkArray as a do-while loop: the first chunk is cut before the length
\* is tested, so an empty array gives one empty chunk.
chunkArrayAtLeastOnce(array, chunkSize) ==
    chunkLoop(array, chunkSize, chunkSize,
              <<slice(array, 0, chunkSize)>>, MaxIter)

\* chunkArray with its loop started at i = 1: the first element is skipped.
chunkArrayFromOne(array, chunkSize) == chunkLoop(array, chunkSize, 1, <<>>, MaxIter)

chunkArray(array, chunkSize) == chunkLoop(array, chunkSize, 0, <<>>, MaxIter)

\* ---------------------------------------------------------------- promises
Pending == [st |-> "pending"]
Fulfilled(v) == [st |-> "fulfilled", value |-> v]
Rejected == [st |-> "rejected"]

Null == [null |-> TRUE]

\* The record made of the details as they came (paymentTermList untouched).
detailsRecordRaw(item, details) ==
    [null |-> FALSE, pos |-> item.pos, id |-> details.id,
     paymentTermList |-> details.paymentTermList]

\* The record the batch callback returns: the details with paymentTermList
\* replaced by [] unless it is an array (pos is the history tag of the item).
detailsRecord(item, details) ==
    [null |-> FALSE, pos |-> item.pos, id |-> details.id,
     paymentTermList |-> IF details.paymentTermList.isArray
                         THEN details.paymentTermList
                         ELSE [isArray |-> TRUE, items |-> <<>>]]

\* The callback without its try/catch: a throw rejects its promise.
batchCallbackNoCatch(item, resp) ==
    LET r == getOrderDetails(item.id, resp) IN
    IF r.threw THEN Rejected ELSE Fulfilled(detailsRecord(item, r.details))

\* The async callback of batch.map, once its request met response resp: the
\* try/catch turns a throw of getOrderDetails into a null result.
batchCallback(item, resp) ==
    LET r == getOrderDetails(item.id, resp) IN
    IF r.threw THEN Fulfilled(Null) ELSE Fulfilled(detailsRecord(item, r.details))

\* Promise.race-like joining: done as soon as one promise is fulfilled.
promiseAnyFulfilled(fs) ==
    IF \E j \in DOMAIN fs : fs[j].st = "fulfilled"
    THEN Fulfilled([j \in DOMAIN fs |->
                      IF fs[j].st = "fulfilled" THEN fs[j].value ELSE Null])
    ELSE Pending

\* Promise.all giving its values in the reverse of the order of fs.
promiseAllReversed(fs) ==
    IF \E j \in DOMAIN fs : fs[j].st = "rejected" THEN Rejected
    ELSE IF \A j \in DOMAIN fs : fs[j].st = "fulfilled"
         THEN Fulfilled([j \in DOMAIN fs |-> fs[Len(fs) + 1 - j].value])
         ELSE Pending

\* Promise.all over the promises fs: rejected as soon as one is rejected,
\* fulfilled with the values in the order of fs once all are fulfilled.
promiseAll(fs) ==
    IF \E j \in DOMAIN fs : fs[j].st = "rejected" THEN Rejected
    ELSE IF \A j \in DOMAIN fs : fs[j].st = "fulfilled"
         THEN Fulfilled([j \in DOMAIN fs |-> fs[j].value])
         ELSE Pending

IsRecord(r) == ~r.null

\* The results kept without filtering the nulls out.
validResultsNoFilter(batchResults) == batchResults

\* batchResults.filter(result !== null && result !== undefined)
validResults(batchResults) == SelectSeq(batchResults, IsRecord)

\* The new results put in front of the collection.
prependResults(all, valid) == valid \o all

\* allOrderDetails = [...allOrderDetails, ...validResults]
appendResults(all, valid) == all \o valid

\* The pacing test off by one.
needsPacingOverTwo(bs) == Len(bs) > 2

\* No pacing at all.
needsPacingNever(bs) == FALSE

\* if (batches.length > 1)
needsPacing(bs) == Len(bs) > 1

\* ------------------------------------------- getBulkOrderDetailsBatched
\* The for-of loop left after its first batch.
forLoopStopEarly(bs, k, all, iss, cd) ==
    IF k <= Len(bs) /\ k < 2
    THEN /\ pc' = "fetching"
         /\ cur' = k
         /\ fetches' = [j \in 1..Len(bs[k]) |-> Pending]
         /\ issued' = iss \o bs[k]
         /\ chunkDone' = <<>>
         /\ result' = <<>>
    ELSE /\ pc' = "returned"
         /\ cur' = 0
         /\ fetches' = <<>>
         /\ issued' = iss
         /\ chunkDone' = cd
         /\ result' = all

\* The head of "for (const batch of batches)" at batch k: either the
\* callbacks of batch k start, each issuing its request at once, or the loop
\* is over and the function returns what it collected (the forEach after the
\* loop only logs).
forLoop(bs, k, all, iss, cd) ==
    IF k <= Len(bs)
    THEN /\ pc' = "fetching"
         /\ cur' = k
         /\ fetches' = [j \in 1..Len(bs[k]) |-> Pending]
         /\ issued' = iss \o bs[k]
         /\ chunkDone' = <<>>
         /\ result' = <<>>
    ELSE /\ pc' = "returned"
         /\ cur' = 0
         /\ fetches' = <<>>
         /\ issued' = iss
         /\ chunkDone' = cd
         /\ result' = all

\* Entry of getBulkOrderDetailsBatched(ids, size), up to its first await.
\* A chunkArray that does not end leaves the call (and the thread) stuck.
enterBulk(ids, size, v) ==
    LET c == chunkArray(Tagged(ids), size) IN
    /\ via' = v
    /\ orderIds' = ids
    /\ batchSize' = size
    /\ allOrderDetails' = <<>>
    /\ waits' = 0
    /\ settled' = {}
    /\ remote' = {}
    /\ cacheAtCall' = DOMAIN orderDetailsCache
    /\ IF c.done
       THEN /\ batches' = c.result
            /\ forLoop(c.result, 1, <<>>, <<>>, <<>>)
       ELSE /\ batches' = <<>>
            /\ pc' = "diverged"
            /\ cur' = 0
            /\ fetches' = <<>>
            /\ issued' = <<>>
            /\ chunkDone' = <<>>
            /\ result' = <<>>

\* A call that ends before getBulkOrderDetailsBatched is entered.
endEarly(v, how) ==
    /\ via' = v
    /\ pc' = how
    /\ orderIds' = <<>>
    /\ batchSize' = DefaultBatchSize
    /\ batches' = <<>>
    /\ cur' = 0
    /\ fetches' = <<>>
    /\ allOrderDetails' = <<>>
    /\ result' = <<>>
    /\ waits' = 0
    /\ issued' = <<>>
    /\ settled' = {}
    /\ remote' = {}
    /\ chunkDone' = <<>>
    /\ cacheAtCall' = DOMAIN orderDetailsCache

Quiescent == pc = "idle"

\* getBulkOrderDetailsBatched called by a client of the module.
CallDirect(ids, size) ==
    /\ Quiescent
    /\ enterBulk(ids, size, "direct")
    /\ UNCHANGED <<token, cacheState>>

\* The request of one callback of the current batch settles.
Settle(j, resp) ==
    /\ pc = "fetching"
    /\ j \in DOMAIN fetches
    /\ fetches[j].st = "pending"
    /\ LET item == batches[cur][j] IN
       /\ fetches' = [fetches EXCEPT ![j] = batchCallback(item, resp)]
       /\ settled' = settled \cup
              {[pos |-> item.pos, ok |-> ~getOrderDetails(item.id, resp).threw]}
       /\ chunkDone' = Append(chunkDone, item.pos)
       /\ remote' = IF resp.kind = "data"
                     THEN remote \cup {[pos |-> item.pos,
                                        paymentTermList |-> resp.paymentTermList]}
                     ELSE remote
    /\ UNCHANGED <<token, pc, via, orderIds, batchSize, batches, cur,
                   allOrderDetails, result, waits, issued, cacheAtCall,
                   cacheState>>

\* "await Promise.all(batchPromises)" resumes: the results are filtered and
\* appended, then the pacing timer is set or the loop goes on.  A rejection
\* would land in the outer catch, which returns [].
BatchComplete ==
    /\ pc = "fetching"
    /\ LET p == promiseAll(fetches) IN
       /\ p.st # "pending"
       /\ IF p.st = "rejected"
          THEN /\ pc' = "returned"
               /\ result' = <<>>
               /\ UNCHANGED <<cur, fetches, allOrderDetails, issued, chunkDone>>
          ELSE LET all == appendResults(allOrderDetails, validResults(p.value)) IN
               /\ allOrderDetails' = all
               /\ IF needsPacing(batches)
                  THEN /\ pc' = "pacing"
                       /\ UNCHANGED <<cur, fetches, issued, chunkDone, result>>
                  ELSE forLoop(batches, cur + 1, all, issued, chunkDone)
    /\ UNCHANGED <<token, via, orderIds, batchSize, batches, waits, settled,
                   cacheAtCall, remote, cacheState>>

\* The 50 ms timer set after a batch fires: the loop goes on.
TimerFire ==
    /\ pc = "pacing"
    /\ waits' = waits + 1
    /\ forLoop(batches, cur + 1, allOrderDetails, issued, chunkDone)
    /\ UNCHANGED <<token, via, orderIds, batchSize, batches, allOrderDetails,
                   settled, cacheAtCall, remote, cacheState>>

\* The caller has the outcome of its call (the value, or the error thrown):
\* the call is over and its locals are gone.
Release ==
    /\ pc \in {"returned", "threw"}
    /\ endEarly("none", "idle")
    /\ UNCHANGED <<token, cacheState>>

\* --------------------------------------------------- useGetOrders queryFn
\* The token test left out.
tokenNeverMissing(t) == FALSE

\* if (!token) throw
tokenMissing(t) == ~t

\* The query function starts: without a token it throws, else it posts the
\* list request and awaits it.
QueryStart ==
    /\ Quiescent
    /\ IF tokenMissing(token) THEN endEarly("query", "threw")
                              ELSE endEarly("query", "listing")
    /\ UNCHANGED <<token, cacheState>>

\* What the list endpoint may answer.
ListResponses ==
    {[kind |-> "http"], [kind |-> "malformed"]}
    \cup {[kind |-> "items", ids |-> s] : s \in BoundedSeq(OrderIdSet \cup {FalsyId}, MaxLen)}

IsTruthyId(x) == x # FalsyId

\* The list request settles: an error status throws, an unexpected shape or
\* an empty list returns [], else the details are fetched in batches of the
\* default size.
ListResponse(r) ==
    /\ pc = "listing"
    /\ IF r.kind = "http" THEN endEarly("query", "threw")
       ELSE IF r.kind = "malformed" THEN endEarly("query", "returned")
       ELSE LET ids == SelectSeq(r.ids, IsTruthyId) IN
            IF Len(ids) = 0 THEN endEarly("query", "returned")
            ELSE enterBulk(ids, DefaultBatchSize, "query")
    /\ UNCHANGED <<token, cacheState>>

\* ------------------------------------------------------------------ cache
EmptyCache == [x \in {} |-> Null]

\* Calls of getCachedOrderDetails awaiting their request.
InFlightCached ==
    LET RECURSIVE Sum(_)
        Sum(T) == IF T = {} THEN 0
                  ELSE LET x == CHOOSE y \in T : TRUE
                       IN cachedPending[x] + Sum(T \ {x})
    IN Sum({x \in DOMAIN cachedPending : cachedPending[x] > 0})

\* if (orderDetailsCache[id])
cacheHas(cache, id) == id \in DOMAIN cache

\* The store made whether or not getOrderDetails threw.
cacheAfterFetchAlways(cache, id, r) ==
    [x \in DOMAIN cache \cup {id} |->
        IF x = id
        THEN IF r.threw THEN [id |-> id, paymentTermList |-> PtlAbsent] ELSE r.details
        ELSE cache[x]]

\* The cache after the await of getCachedOrderDetails(id): a throw of
\* getOrderDetails leaves the function before the store.
cacheAfterFetch(cache, id, r) ==
    IF r.threw THEN cache
    ELSE [x \in DOMAIN cache \cup {id} |-> IF x = id THEN r.details ELSE cache[x]]

\* The size test as cacheSize >= 100.
clearedCacheAtLimit(cache) ==
    IF Cardinality(DOMAIN cache) >= CacheLimit THEN EmptyCache ELSE cache

\* The cache after clearCacheIfNeeded: every key deleted when there are more
\* than the limit.
clearedCache(cache) ==
    IF Cardinality(DOMAIN cache) > CacheLimit THEN EmptyCache ELSE cache

\* getCachedOrderDetails(id) up to its await: a hit returns the entry and
\* issues nothing, a miss issues the request.
CachedCall(id) ==
    /\ pc # "diverged"
    /\ IF cacheHas(orderDetailsCache, id)
       THEN /\ UNCHANGED cachedPending
            /\ cacheOp' = [op |-> "call", id |-> id, how |-> "hit",
                           cached |-> id \in DOMAIN orderDetailsCache]
       ELSE /\ InFlightCached < MaxCachedInFlight
            /\ cachedPending' = [cachedPending EXCEPT ![id] = @ + 1]
            /\ cacheOp' = [op |-> "call", id |-> id, how |-> "issued",
                           cached |-> id \in DOMAIN orderDetailsCache]
    /\ UNCHANGED <<token, orderDetailsCache, cachedFailed>>
    /\ UNCHANGED callVars

\* The request of a getCachedOrderDetails(id) settles: the details are
\* stored, or the throw of getOrderDetails goes on to the caller.
CachedSettle(id, resp) ==
    /\ pc # "diverged"
    /\ cachedPending[id] > 0
    /\ cachedPending' = [cachedPending EXCEPT ![id] = @ - 1]
    /\ LET r == getOrderDetails(id, resp) IN
       /\ orderDetailsCache' = cacheAfterFetch(orderDetailsCache, id, r)
       /\ cacheOp' = [op |-> "settle", id |-> id,
                      how |-> IF r.threw THEN "threw" ELSE "stored",
                      unchanged |-> orderDetailsCache' = orderDetailsCache]
       /\ cachedFailed' = IF r.threw THEN cachedFailed \cup {id}
                          ELSE cachedFailed \ {id}
    /\ UNCHANGED token
    /\ UNCHANGED callVars

clearCacheIfNeeded ==
    /\ pc # "diverged"
    /\ orderDetailsCache' = clearedCache(orderDetailsCache)
    /\ cacheOp' = [op |-> "clear",
                   before |-> Cardinality(DOMAIN orderDetailsCache),
                   after |-> Cardinality(DOMAIN orderDetailsCache'),
                   unchanged |-> orderDetailsCache' = orderDetailsCache]
    /\ UNCHANGED <<token, cachedPending, cachedFailed>>
    /\ UNCHANGED callVars

\* ---------------------------------------------------------- specification
Init ==
    /\ token \in BOOLEAN
    /\ pc = "idle"
    /\ via = "none"
    /\ orderIds = <<>>
    /\ batchSize = DefaultBatchSize
    /\ batches = <<>>
    /\ cur = 0
    /\ fetches = <<>>
    /\ allOrderDetails = <<>>
    /\ result = <<>>
    /\ waits = 0
    /\ issued = <<>>
    /\ settled = {}
    /\ chunkDone = <<>>
    /\ cacheAtCall = {}
    /\ remote = {}
    /\ orderDetailsCache = EmptyCache
    /\ cachedPending = [x \in OrderIdSet |-> 0]
    /\ cacheOp = [op |-> "none"]
    /\ cachedFailed = {}

Next ==
    \/ \E ids \in BoundedSeq(OrderIdSet, MaxLen), size \in (0 - MaxNegSize)..MaxBatchSize :
           CallDirect(ids, size)
    \/ \E j \in 1..(MaxLen + 1), resp \in Responses : Settle(j, resp)
    \/ BatchComplete
    \/ TimerFire
    \/ Release
    \/ QueryStart
    \/ \E r \in ListResponses : ListResponse(r)

\* The program as it stands: nothing in it calls the cache wrapper.
Spec == Init /\ [][Next]_vars

\* The module with a client that also uses getCachedOrderDetails and
\* clearCacheIfNeeded, next to direct calls of getBulkOrderDetailsBatched.
InitCache == Init /\ token

NextCache ==
    \/ \E ids \in BoundedSeq(OrderIdSet, MaxLenCached), size \in 1..MaxBatchSize :
           CallDirect(ids, size)
    \/ \E j \in 1..(MaxLen + 1), resp \in Responses : Settle(j, resp)
    \/ BatchComplete
    \/ TimerFire
    \/ Release
    \/ \E id \in OrderIdSet : CachedCall(id)
    \/ \E id \in OrderIdSet, resp \in Responses : CachedSettle(id, resp)
    \/ clearCacheIfNeeded

SpecCache == InitCache /\ [][NextCache]_vars

\* The program with every issued request settling in the end and the event
\* loop running the continuations that are ready: a settled batch resumes
\* the loop, a timer that was set fires.
Fairness ==
    /\ WF_vars(\E j \in 1..(MaxLen + 1), resp \in Responses : Settle(j, resp))
    /\ WF_vars(BatchComplete)
    /\ WF_vars(TimerFire)

SpecFair == Spec /\ Fairness

\* The cache wrapper alone, with every response, on the identifiers of
\* OrderIdSet.
InitWrapper == Init /\ token

NextWrapper ==
    \/ \E id \in OrderIdSet : CachedCall(id)
    \/ \E id \in OrderIdSet, resp \in Responses : CachedSettle(id, resp)
    \/ clearCacheIfNeeded

SpecWrapper == InitWrapper /\ [][NextWrapper]_vars

\* The cache wrapper filling the cache past its limit.  The identifiers are
\* named 1, 2, ...; every fetch succeeds, with the same payload, so cached
\* identifiers are interchangeable and so are those not cached: a call is
\* for the least cached identifier or for the least one not cached.
EvictIds == 1..(CacheLimit + MaxOver)

Least(S) == IF S = {} THEN {} ELSE {CHOOSE x \in S : \A y \in S : x <= y}

EvictCallIds ==
    Least(DOMAIN orderDetailsCache) \cup Least(EvictIds \ DOMAIN orderDetailsCache)

EvictResponses == {[kind |-> "data", paymentTermList |-> PtlArray]}

InitEvict ==
    /\ token = TRUE
    /\ pc = "idle"
    /\ via = "none"
    /\ orderIds = <<>>
    /\ batchSize = DefaultBatchSize
    /\ batches = <<>>
    /\ cur = 0
    /\ fetches = <<>>
    /\ allOrderDetails = <<>>
    /\ result = <<>>
    /\ waits = 0
    /\ issued = <<>>
    /\ settled = {}
    /\ chunkDone = <<>>
    /\ cacheAtCall = {}
    /\ remote = {}
    /\ orderDetailsCache = EmptyCache
    /\ cachedPending = [x \in EvictIds |-> 0]
    /\ cacheOp = [op |-> "none"]
    /\ cachedFailed = {}

NextEvict ==
    \/ \E id \in EvictCallIds : CachedCall(id)
    \/ \E id \in EvictIds, resp \in EvictResponses : CachedSettle(id, resp)
    \/ clearCacheIfNeeded

SpecEvict == InitEvict /\ [][NextEvict]_vars

\* ------------------------------------------------------- history views
IssuedPos == {issued[i].pos : i \in DOMAIN issued}
SettledPos == {s.pos : s \in settled}
OkPos == {s.pos : s \in {t \in settled : t.ok}}
InFlight == Len(issued) - Cardinality(settled)
BatchPos(k) == {batches[k][j].pos : j \in DOMAIN batches[k]}
ChunkOf(p) == CHOOSE k \in DOMAIN batches : p \in BatchPos(k)
InBulk == pc \in {"fetching", "pacing", "returned"}
IsOkPos(p) == p \in OkPos
RecordPos(rs) == [i \in DOMAIN rs |-> rs[i].pos]

\* ------------------------------------------------------------------ claims

\* C1: no fetch for an identifier of a later chunk is initiated until every
\* fetch of each earlier chunk has settled, with success or with failure.
C1_ChunksSequential ==
    \A k \in DOMAIN batches, m \in DOMAIN batches :
        (k < m /\ BatchPos(m) \cap IssuedPos # {}) => BatchPos(k) \subseteq SettledPos

\* C1 witness: the second chunk is in flight after a first chunk of two
\* fetches, one of which failed.
C1_Witness ==
    /\ pc = "fetching" /\ cur = 2
    /\ Len(batches[1]) = 2
    /\ \E s \in settled : ~s.ok
    /\ \E s \in settled : s.ok

\* C2: a call that fetched never ends by raising; when it returns, every
\* identifier position was fetched and has settled, whatever failed before
\* it, and the result holds one record for exactly the positions whose fetch
\* succeeded.
C2_FaultIsolation ==
    /\ pc = "threw" => issued = <<>>
    /\ pc = "returned" =>
          /\ IssuedPos = 1..Len(orderIds)
          /\ SettledPos = 1..Len(orderIds)
          /\ Len(result) = Cardinality(OkPos)
          /\ {result[i].pos : i \in DOMAIN result} = OkPos
          /\ \A i \in DOMAIN result : result[i].id = orderIds[result[i].pos]

\* C2 witness: the first of several chunks had a failure, the call returned
\* and one record is missing.
C2_Witness ==
    /\ pc = "returned"
    /\ Len(batches) > 1
    /\ [pos |-> 1, ok |-> FALSE] \in settled
    /\ Len(orderIds) = MaxLen
    /\ Len(result) = MaxLen - 1

\* C3: the detail fetches issued and not yet settled never number more than
\* the chunk size.
C3_BoundedConcurrency == batchSize >= 1 => InFlight <= batchSize

\* C3 witness: a full chunk in flight, with more identifiers waiting.
C3_Witness ==
    /\ pc = "fetching"
    /\ batchSize = MaxBatchSize
    /\ InFlight = batchSize
    /\ Len(orderIds) > batchSize

\* C4: no detail request is issued for an identifier that was cached when
\* the call began, and the record returned for it is the cached one.
C4_CacheShortCircuit ==
    /\ \A i \in DOMAIN issued : issued[i].id \notin cacheAtCall
    /\ pc = "returned" =>
          \A i \in DOMAIN result :
              (result[i].id \in cacheAtCall /\ result[i].id \in DOMAIN orderDetailsCache)
                  => result[i].paymentTermList
                         = orderDetailsCache[result[i].id].paymentTermList

\* C5 (as stated): records of earlier chunks precede those of later chunks,
\* and the records of a chunk stand in the order their fetches completed.
C5_CompletionOrder ==
    /\ \A i \in DOMAIN allOrderDetails, j \in DOMAIN allOrderDetails :
          i < j => ChunkOf(allOrderDetails[i].pos) <= ChunkOf(allOrderDetails[j].pos)
    /\ (pc \in {"pacing", "returned"} /\ chunkDone # <<>>) =>
          LET done == SelectSeq(chunkDone, IsOkPos)
              n == Len(allOrderDetails)
          IN SubSeq(RecordPos(allOrderDetails), n - Len(done) + 1, n) = done

\* C5 (amended): records of earlier chunks precede those of later chunks,
\* and the records of a chunk stand in the order of the input identifiers.
C5_InputOrderInChunk ==
    /\ \A i \in DOMAIN allOrderDetails, j \in DOMAIN allOrderDetails :
          i < j =>
             LET a == allOrderDetails[i].pos
                 b == allOrderDetails[j].pos
             IN /\ ChunkOf(a) <= ChunkOf(b)
                /\ ChunkOf(a) = ChunkOf(b) => a < b
    /\ pc = "returned" => result = allOrderDetails

\* C5 witness: in a call of several chunks, the records of a chunk whose
\* fetches all succeeded, completing against the input order, were collected.
C5_Witness ==
    /\ pc = "pacing"
    /\ Len(batches) > 1
    /\ Len(allOrderDetails) = Len(chunkDone)
    /\ \E i \in DOMAIN chunkDone, j \in DOMAIN chunkDone :
          i < j /\ chunkDone[i] > chunkDone[j]

\* C6 (as stated): without a token, getBulkOrderDetailsBatched called with a
\* non-empty batch fails and issues no detail request.
C6_BulkFailsUnauthenticated ==
    (~token /\ pc # "idle" /\ orderIds # <<>>) => (pc = "threw" /\ issued = <<>>)

\* C6 (amended): without a token, the query function that wraps the batched
\* fetch throws before any request: it never awaits the list request, never
\* enters getBulkOrderDetailsBatched and no detail request is issued.
C6_QueryFailsUnauthenticated ==
    (~token /\ via = "query") => (pc = "threw" /\ orderIds = <<>> /\ issued = <<>>)

\* C6 witness: the query function has thrown for want of a token.
C6_Witness == ~token /\ via = "query" /\ pc = "threw"

\* C7: for a size of at least 1 the chunks, concatenated in order, are the
\* input, and every chunk but the last has exactly that size.
C7_ChunkCompleteness ==
    (InBulk /\ batchSize >= 1) =>
        /\ Concat(batches) = Tagged(orderIds)
        /\ \A k \in DOMAIN batches : k < Len(batches) => Len(batches[k]) = batchSize

\* C7 witness: several chunks, the last one shorter than the size.
C7_Witness ==
    /\ InBulk
    /\ batchSize = MaxBatchSize
    /\ Len(batches) > 1
    /\ Len(batches[Len(batches)]) < batchSize

\* C8: a size below 1 makes the call fail with an error, for every list of
\* identifiers; it neither returns nor runs without end.
C8_InvalidSizeRejected ==
    (via = "direct" /\ batchSize < 1) => pc = "threw"

\* C9: with more than one chunk a pacing wait passes after each chunk has
\* settled and before the first fetch of the next chunk; with one chunk no
\* pacing wait takes place.
C9_Pacing ==
    /\ \A k \in DOMAIN batches :
          (k >= 2 /\ BatchPos(k) \cap IssuedPos # {}) => waits >= k - 1
    /\ pc = "pacing" => (InFlight = 0 /\ BatchPos(cur) \subseteq SettledPos)
    /\ Len(batches) <= 1 => (waits = 0 /\ pc # "pacing")

\* C9 witness: the second chunk is in flight after one pacing wait.
C9_Witness == pc = "fetching" /\ cur = 2 /\ waits = 1

\* C10: when every fetch of a non-empty batch failed, the call returns the
\* empty sequence, after attempting every chunk.
C10_TotalFailure ==
    (pc = "returned" /\ orderIds # <<>> /\ \A s \in settled : ~s.ok) =>
        (result = <<>> /\ SettledPos = 1..Len(orderIds))

\* C10 witness: a batch of several chunks returned with every fetch failed.
C10_Witness ==
    /\ pc = "returned"
    /\ Len(batches) > 1
    /\ Cardinality(settled) = Len(orderIds)
    /\ \A s \in settled : ~s.ok

\* C11: clearCacheIfNeeded empties the cache when it holds more entries than
\* the limit, and leaves every entry as it was when it holds at most the
\* limit.
C11_EvictionTrigger ==
    cacheOp.op = "clear" =>
        IF cacheOp.before > CacheLimit
        THEN cacheOp.after = 0 /\ orderDetailsCache = EmptyCache
        ELSE cacheOp.unchanged /\ cacheOp.after = cacheOp.before

\* C11 witness: clearCacheIfNeeded met a cache of one entry more than the
\* limit and emptied it.
C11_Witness ==
    /\ cacheOp.op = "clear"
    /\ cacheOp.before = CacheLimit + 1
    /\ Cardinality(DOMAIN orderDetailsCache) = 0

\* C17: the cached fetch path clears after each store, so the cache never
\* holds more than the limit plus one entries.
C17_CacheGrowthBounded ==
    Cardinality(DOMAIN orderDetailsCache) <= CacheLimit + 1

\* C18: a cached fetch that threw left the cache as it was, one that
\* succeeded left an entry for its identifier, and a call for an identifier
\* without an entry, as after a failure, issues a request.
C18_EntryLifecycle ==
    /\ cacheOp.op = "settle" =>
          IF cacheOp.how = "threw"
          THEN cacheOp.unchanged
          ELSE cacheOp.id \in DOMAIN orderDetailsCache
    /\ cacheOp.op = "call" => (cacheOp.how = "issued" <=> ~cacheOp.cached)

\* C18 witness: after a cached fetch of an identifier threw, a further call
\* for it issued a request.
C18_Witness ==
    /\ cacheOp.op = "call"
    /\ cacheOp.how = "issued"
    /\ cacheOp.id \in cachedFailed

\* C12: getBulkOrderDetailsBatched([]) with a batch size of at least 1 returns
\* the empty sequence, having issued no request and waited for no pacing
\* timer.
C12_EmptyInput ==
    (via = "direct" /\ orderIds = <<>> /\ batchSize >= 1) =>
        /\ pc = "returned"
        /\ result = <<>>
        /\ batches = <<>>
        /\ issued = <<>>
        /\ waits = 0

C12_Witness ==
    /\ via = "direct"
    /\ orderIds = <<>>
    /\ batchSize = MaxBatchSize
    /\ pc = "returned"
    /\ result = <<>>
    /\ issued = <<>>

\* C13: with a batch size n >= 1, a request of len identifiers is cut into
\* ceil(len / n) batches (none for an empty request); every batch but the
\* last has n items and the last has the rest.
C13_ChunkCount ==
    (InBulk /\ via # "none" /\ batchSize >= 1) =>
        LET len == Len(orderIds)
            n == (len + batchSize - 1) \div batchSize
        IN /\ Len(batches) = n
           /\ \A k \in DOMAIN batches :
                  Len(batches[k]) = IF k < n THEN batchSize
                                    ELSE len - (n - 1) * batchSize

C13_Witness ==
    /\ InBulk
    /\ Len(orderIds) = 3
    /\ batchSize = 2
    /\ Len(batches) = 2
    /\ Len(batches[1]) = 2
    /\ Len(batches[2]) = 1

\* What the remote sent as paymentTermList for the item at position p.
RemotePtl(p) == {x.paymentTermList : x \in {y \in remote : y.pos = p}}

\* Every record of rs has a sequence as paymentTermList: the remote value
\* when that was a sequence, the empty sequence otherwise.
Normalised(rs) ==
    \A i \in DOMAIN rs :
        /\ rs[i].paymentTermList.isArray
        /\ RemotePtl(rs[i].pos) # {}
        /\ \A raw \in RemotePtl(rs[i].pos) :
               IF raw.isArray THEN rs[i].paymentTermList = raw
               ELSE rs[i].paymentTermList.items = <<>>

\* C14: every record collected and returned by getBulkOrderDetailsBatched
\* has paymentTermList as a sequence, the remote one unchanged when the
\* remote sent a sequence and the empty one when it sent none or something
\* else.
C14_RecordInvariant == Normalised(allOrderDetails) /\ Normalised(result)

\* C14 witness: a call returned three records, whose remote values were a
\* sequence, nothing, and a value that is no sequence.
C14_Witness ==
    /\ pc = "returned"
    /\ Len(result) = 3
    /\ RemotePtl(result[1].pos) = {PtlArray}
    /\ RemotePtl(result[2].pos) = {PtlAbsent}
    /\ RemotePtl(result[3].pos) = {PtlJunk}
    /\ result[1].paymentTermList = PtlArray
    /\ result[2].paymentTermList.items = <<>>
    /\ result[3].paymentTermList.items = <<>>

\* C15: during a call of getBulkOrderDetailsBatched at most one request is
\* issued for each distinct identifier, duplicates in the request being
\* served by the cache.
C15_DuplicateAbsorption ==
    \A i, j \in DOMAIN issued : i # j => issued[i].id # issued[j].id

\* C16: a call of getBulkOrderDetailsBatched that has started fetching
\* returns in the end, provided its requests settle, and whenever it has
\* returned exactly one request was issued for each position of the request,
\* in order: none twice, none skipped.
C16_RunToCompletion ==
    /\ [](pc = "returned" => issued = Tagged(orderIds))
    /\ (pc \in {"fetching", "pacing"}) ~>
           (pc = "returned" /\ issued = Tagged(orderIds))

\* C16 witness: a call over two batches returned after a fetch of the first
\* batch failed, every position issued once.
C16_Witness ==
    /\ pc = "returned"
    /\ via = "direct"
    /\ Len(orderIds) = 3
    /\ Len(batches) = 2
    /\ [pos |-> 2, ok |-> FALSE] \in settled
    /\ issued = Tagged(orderIds)
    /\ Len(result) = 2

\* The items of the request whose fetch succeeded, in the order of the
\* request.
OkItems == SelectSeq(Tagged(orderIds), LAMBDA it : it.pos \in OkPos)

\* C19: the records returned by getBulkOrderDetailsBatched are those of the
\* input identifiers whose fetch succeeded, in input order, whatever the
\* order in which the fetches of a batch completed.
C19_InputOrderResult ==
    (pc = "returned" /\ via # "none") =>
        /\ Len(result) = Len(OkItems)
        /\ \A i \in DOMAIN result :
               /\ result[i].pos = OkItems[i].pos
               /\ result[i].id = OkItems[i].id

\* C19 witness: the query path fetched three identifiers in one batch, the
\* last fetch completed first and the middle one failed; the first and the
\* last record came back in input order.
C19_Witness ==
    /\ pc = "returned"
    /\ via = "query"
    /\ orderIds = <<"A", "B", "A">>
    /\ Len(batches) = 1
    /\ chunkDone = <<3, 2, 1>>
    /\ OkPos = {1, 3}
    /\ RecordPos(result) = <<1, 3>>

\* C20: a call cut into k >= 2 batches waits for the pacing timer after
\* every batch, the last included: while batch c is fetched or paced c - 1
\* waits are over, and at the return k waits are, the last one after the
\* last batch was collected.
C20_TrailingWait ==
    Len(batches) >= 2 =>
        /\ pc = "returned" => waits = Len(batches)
        /\ pc \in {"fetching", "pacing"} => waits = cur - 1
        /\ (pc = "pacing" /\ cur = Len(batches)) => result = <<>>

\* C20 witness: a call of three batches returned after three waits.
C20_Witness ==
    /\ pc = "returned"
    /\ Len(batches) = 3
    /\ waits = 3
    /\ Len(issued) = 3

====
